---- MODULE Spec2Model ----
(***************************************************************************)
(* A model of InputGraphicsSoundMenu (src/input_graphics_sound_menu.hpp):  *)
(* the menu controller that owns curr_state and enabled, the registry of   *)
(* screens, the dependency resolver, the per-frame processing loop and the *)
(* callbacks wired to the elements of the eight screens.                   *)
(*                                                                         *)
(* The render suite (process_and_queue_render_ui), the configuration       *)
(* store, the sound system, the window and the key validity check are      *)
(* collaborators outside the file.  They are modelled by their contract at *)
(* the place the file calls them: an element's click callback fires when   *)
(* the pointer is over the element of a processed screen and the primary   *)
(* button was just pressed, its hover callback when the pointer has just   *)
(* moved onto it, an input box's confirm callback when the box is focused  *)
(* and enter was just pressed.                                             *)
(*                                                                         *)
(* The configuration store is read by the constructor only; after that the *)
(* controller only writes to it, and the model records a frame's writes    *)
(* (set_values) beside the other collaborator calls of the frame.          *)
(*                                                                         *)
(* Strings whose characters the code inspects are sequences of one         *)
(* character strings; all configuration values are of that shape.          *)
(***************************************************************************)
EXTENDS FiniteSets, Integers, Sequences, TLC

VARIABLES
    enabled,               \* bool enabled
    curr_state,            \* UIState curr_state
    window_should_close,   \* the GLFW close flag of window.glfw_window
    uis,                   \* the eight UI members, built once by the constructor
    thrown,                \* an exception has left process_and_queue_render_menu
    pointer,               \* input_state.mouse_position_x/y and the window's sizes
    acnmp,                 \* the pointer position the last frame gave the screens
    processed,             \* states whose screen the last frame processed, in order
    fired,                 \* element callbacks invoked in the last frame, in order
    sounds,                \* sounds queued in the last frame, in order
    set_values,            \* configuration.set_value calls of the last frame, in order
    calls                  \* other collaborator calls of the last frame, in order

vars == <<enabled, curr_state, window_should_close, uis, thrown, pointer, acnmp,
          processed, fired, sounds, set_values, calls>>

(***************************************************************************)
(* enum class UIState                                                      *)
(***************************************************************************)
MAIN_MENU == "MAIN_MENU"
SETTINGS_MENU == "SETTINGS_MENU"
PROGRAM_SETTINGS == "PROGRAM_SETTINGS"
INPUT_SETTINGS == "INPUT_SETTINGS"
SOUND_SETTINGS == "SOUND_SETTINGS"
GRAPHICS_SETTINGS == "GRAPHICS_SETTINGS"
ADVANCED_SETTINGS == "ADVANCED_SETTINGS"
ABOUT == "ABOUT"

UIState ==
    {MAIN_MENU, SETTINGS_MENU, PROGRAM_SETTINGS, INPUT_SETTINGS, SOUND_SETTINGS,
     GRAPHICS_SETTINGS, ADVANCED_SETTINGS, ABOUT}

\* the sub-settings states: the panels shown inside the settings menu
SubSettingsStates ==
    {PROGRAM_SETTINGS, INPUT_SETTINGS, SOUND_SETTINGS, GRAPHICS_SETTINGS,
     ADVANCED_SETTINGS}

UI_HOVER == "UI_HOVER"
UI_CLICK == "UI_CLICK"

(***************************************************************************)
(* Strings                                                                 *)
(***************************************************************************)
W == <<"w">>
ZZ == <<"z", "z">>
ON == <<"o", "n">>
OFF == <<"o", "f", "f">>
R1280x720 == <<"1", "2", "8", "0", "x", "7", "2", "0">>
R1920x1080 == <<"1", "9", "2", "0", "x", "1", "0", "8", "0">>
R1280960 == <<"1", "2", "8", "0", "9", "6", "0">>
Rx720 == <<"x", "7", "2", "0">>

\* what a user may have typed into an input box when enter is pressed
InputTexts == {W, ZZ}

\* InputState::is_valid_key_string, called at the key confirm callback
ValidKeyStrings == {W}

is_valid_key_string(input_value) == input_value \in ValidKeyStrings

\* get_available_resolutions("16:9"): may return nothing (as on mac)
AvailableResolutions == {<<>>, <<R1280x720, R1920x1080>>}

\* get_available_resolutions("16:9") returning a string that is not of the
\* form "<width>x<height>": without the separator, or without a width
MalformedResolutions == {<<R1280x720, R1280960>>, <<Rx720, R1920x1080>>}

(***************************************************************************)
(* The Configuration store: a partial map from <<section, key>> to value.  *)
(***************************************************************************)
EmptyConfiguration == [k \in {} |-> <<>>]

\* the store's content after set_value(section, key, value)
stored(config, section, key, value) ==
    [k \in (DOMAIN config) \cup {<<section, key>>} |->
        IF k = <<section, key>> THEN value ELSE config[k]]

\* std::optional<std::string> as a sequence of length at most one
get_value(config, section, key) ==
    IF <<section, key>> \in DOMAIN config THEN <<config[<<section, key>>]>> ELSE <<>>

value_or(opt, default) == IF opt = <<>> THEN default ELSE opt[1]

\* the configurations a controller may be constructed over
InitialConfigurations ==
    {EmptyConfiguration,
     stored(EmptyConfiguration, "graphics", "wireframe", ON),
     stored(EmptyConfiguration, "graphics", "wireframe", OFF),
     stored(EmptyConfiguration, "graphics", "show_fps", ON)}

\* get_ui_dependencies with the SOUND_SETTINGS case returning nothing
get_ui_dependencies_sound_alone(ui_state) ==
    IF ui_state \in {PROGRAM_SETTINGS, INPUT_SETTINGS, GRAPHICS_SETTINGS,
                     ADVANCED_SETTINGS}
    THEN <<SETTINGS_MENU>>
    ELSE <<>>

(***************************************************************************)
(* std::vector<UIState> get_ui_dependencies(const UIState &ui_state)       *)
(***************************************************************************)
get_ui_dependencies(ui_state) ==
    CASE ui_state = MAIN_MENU -> <<>>
      [] ui_state = SETTINGS_MENU -> <<>>
      [] ui_state = PROGRAM_SETTINGS -> <<SETTINGS_MENU>>
      [] ui_state = INPUT_SETTINGS -> <<SETTINGS_MENU>>
      [] ui_state = SOUND_SETTINGS -> <<SETTINGS_MENU>>
      [] ui_state = GRAPHICS_SETTINGS -> <<SETTINGS_MENU>>
      [] ui_state = ADVANCED_SETTINGS -> <<SETTINGS_MENU>>
      [] ui_state = ABOUT -> <<>>
      [] OTHER -> <<>>

(***************************************************************************)
(* std::map<UIState, UI &> game_state_to_ui                                *)
(***************************************************************************)
\* game_state_to_ui without the entry of SETTINGS_MENU
game_state_to_ui_no_settings_menu ==
    [s \in UIState \ {SETTINGS_MENU} |->
        CASE s = MAIN_MENU -> "main_menu_ui"
          [] s = ABOUT -> "about_ui"
          [] s = PROGRAM_SETTINGS -> "player_settings_ui"
          [] s = INPUT_SETTINGS -> "input_settings_ui"
          [] s = SOUND_SETTINGS -> "sound_settings_ui"
          [] s = GRAPHICS_SETTINGS -> "graphics_settings_ui"
          [] s = ADVANCED_SETTINGS -> "advanced_settings_ui"]

game_state_to_ui ==
    [s \in UIState |->
        CASE s = MAIN_MENU -> "main_menu_ui"
          [] s = ABOUT -> "about_ui"
          [] s = SETTINGS_MENU -> "settings_menu_ui"
          [] s = PROGRAM_SETTINGS -> "player_settings_ui"
          [] s = INPUT_SETTINGS -> "input_settings_ui"
          [] s = SOUND_SETTINGS -> "sound_settings_ui"
          [] s = GRAPHICS_SETTINGS -> "graphics_settings_ui"
          [] s = ADVANCED_SETTINGS -> "advanced_settings_ui"]

(***************************************************************************)
(* The controller's mutable state as one record, as the callbacks see it   *)
(* through their captured references.                                      *)
(***************************************************************************)
queue_sound(st, kind) == [st EXCEPT !.sounds = Append(@, kind)]

call(st, name) == [st EXCEPT !.calls = Append(@, name)]

\* configuration.set_value(section, key, value)
set_value(st, section, key, value) ==
    [st EXCEPT !.set_values =
        Append(@, [section |-> section, key |-> key, value |-> value])]

(***************************************************************************)
(* Callbacks of create_main_menu_ui                                        *)
(***************************************************************************)
on_hover(st) == queue_sound(st, UI_HOVER)

dropdown_on_hover(st, option) == queue_sound(st, UI_HOVER)

\* on_program_start forgetting to leave the menu
on_program_start_sound_only(st) == queue_sound(st, UI_CLICK)

on_program_start(st) == [queue_sound(st, UI_CLICK) EXCEPT !.enabled = FALSE]

\* on_click_settings opening the settings menu without a panel
main_menu_on_click_settings_no_panel(st) ==
    [queue_sound(st, UI_CLICK) EXCEPT !.curr_state = SETTINGS_MENU]

main_menu_on_click_settings(st) ==
    [queue_sound(st, UI_CLICK) EXCEPT !.curr_state = PROGRAM_SETTINGS]

on_click_about(st) == [queue_sound(st, UI_CLICK) EXCEPT !.curr_state = ABOUT]

\* on_game_quit also leaving the menu
on_game_quit_leaving(st) ==
    [queue_sound(st, UI_CLICK) EXCEPT !.window_should_close = TRUE, !.enabled = FALSE]

on_game_quit(st) == [queue_sound(st, UI_CLICK) EXCEPT !.window_should_close = TRUE]

(***************************************************************************)
(* Callbacks of create_about_ui                                            *)
(***************************************************************************)
\* on_back_clicked of the about screen assigning the state it is in
about_on_back_clicked_stays(st) == [st EXCEPT !.curr_state = ABOUT]

about_on_back_clicked(st) == [st EXCEPT !.curr_state = MAIN_MENU]

\* the print-only confirm callback each builder declares
on_confirm(st, contents) == call(st, "cout")

(***************************************************************************)
(* Callbacks of create_settings_menu_ui                                    *)
(***************************************************************************)
\* on_back_clicked going one level up instead of to the main menu
on_back_clicked_one_level(st) ==
    [queue_sound(st, UI_CLICK) EXCEPT !.curr_state = SETTINGS_MENU]

\* on_back_clicked also leaving the menu
on_back_clicked_leaving(st) ==
    [queue_sound(st, UI_CLICK) EXCEPT !.curr_state = MAIN_MENU, !.enabled = FALSE]

on_back_clicked(st) == [queue_sound(st, UI_CLICK) EXCEPT !.curr_state = MAIN_MENU]

on_apply_clicked(st) == call(queue_sound(st, UI_CLICK), "apply_config_logic")

on_save_clicked(st) == call(queue_sound(st, UI_CLICK), "save_to_file")

\* player_on_click showing the settings menu without a panel
player_on_click_menu_only(st) ==
    [queue_sound(st, UI_CLICK) EXCEPT !.curr_state = SETTINGS_MENU]

player_on_click(st) == [queue_sound(st, UI_CLICK) EXCEPT !.curr_state = PROGRAM_SETTINGS]

input_on_click(st) == [queue_sound(st, UI_CLICK) EXCEPT !.curr_state = INPUT_SETTINGS]

sound_on_click(st) == [queue_sound(st, UI_CLICK) EXCEPT !.curr_state = SOUND_SETTINGS]

graphics_on_click(st) ==
    [queue_sound(st, UI_CLICK) EXCEPT !.curr_state = GRAPHICS_SETTINGS]

network_on_click(st) ==
    [queue_sound(st, UI_CLICK) EXCEPT !.curr_state = ADVANCED_SETTINGS]

(***************************************************************************)
(* Callbacks of create_input_settings_ui                                   *)
(***************************************************************************)
sens_on_click(st, option) ==
    set_value(queue_sound(st, UI_CLICK), "input", "mouse_sensitivity", option)

\* the closure without the validity check
create_key_on_confirm_function_unchecked(key_str, st, input_value) ==
    queue_sound(set_value(st, "input", key_str, input_value), UI_CLICK)

\* the closure create_key_on_confirm_function(key_str) returns
create_key_on_confirm_function(key_str, st, input_value) ==
    IF is_valid_key_string(input_value)
    THEN queue_sound(set_value(st, "input", key_str, input_value), UI_CLICK)
    ELSE call(st, "logger.warn")

(***************************************************************************)
(* Callbacks of create_graphics_settings_ui                                *)
(***************************************************************************)
graphics_on_click_settings(st) == [st EXCEPT !.curr_state = PROGRAM_SETTINGS]

\* option.find('x'): the 0-based position of the first 'x', or npos
npos == -1

find(option, ch) ==
    IF \E i \in 1..Len(option) : option[i] = ch
    THEN (CHOOSE i \in 1..Len(option) :
              option[i] = ch /\ \A j \in 1..(i - 1) : option[j] # ch) - 1
    ELSE npos

isdigit(ch) == ch \in {"0", "1", "2", "3", "4", "5", "6", "7", "8", "9"}

digit(ch) ==
    CASE ch = "0" -> 0 [] ch = "1" -> 1 [] ch = "2" -> 2 [] ch = "3" -> 3
      [] ch = "4" -> 4 [] ch = "5" -> 5 [] ch = "6" -> 6 [] ch = "7" -> 7
      [] ch = "8" -> 8 [] ch = "9" -> 9

\* the value of the digits of str from position i on, after the value acc
RECURSIVE digits_value(_, _, _)
digits_value(str, i, acc) ==
    IF i > Len(str) \/ ~isdigit(str[i])
    THEN acc
    ELSE digits_value(str, i + 1, 10 * acc + digit(str[i]))

\* std::stoi(str): leading spaces, an optional sign, then the digits up to
\* the first other character; throws when there is no digit
\* (std::invalid_argument) or the value is no int (std::out_of_range)
stoi(str) ==
    LET start == IF \E i \in 1..Len(str) : str[i] # " "
                 THEN CHOOSE i \in 1..Len(str) :
                          str[i] # " " /\ \A j \in 1..(i - 1) : str[j] = " "
                 ELSE Len(str) + 1
        signed == start <= Len(str) /\ str[start] \in {"+", "-"}
        first == IF signed THEN start + 1 ELSE start
        magnitude == digits_value(str, first, 0)
        value == IF signed /\ str[start] = "-" THEN 0 - magnitude ELSE magnitude
    IN  IF first > Len(str) \/ ~isdigit(str[first])
        THEN [thrown |-> TRUE, value |-> 0]
        ELSE IF value > 2147483647 \/ value < -2147483647 - 1
             THEN [thrown |-> TRUE, value |-> 0]
             ELSE [thrown |-> FALSE, value |-> value]

\* option.substr(pos): the characters from the 0-based position pos on
substr(option, pos) == SubSeq(option, pos + 1, Len(option))

\* resolution_dropdown_on_click writing whatever option it is given
resolution_dropdown_on_click_unparsed(st, option) ==
    set_value(queue_sound(st, UI_CLICK), "graphics", "resolution", option)

resolution_dropdown_on_click(st, option) ==
    LET s1 == queue_sound(st, UI_CLICK)
        x_pos == find(option, "x")
        width == stoi(SubSeq(option, 1, x_pos))
        height == stoi(substr(option, x_pos + 1))
    IN  IF x_pos # npos
        THEN IF width.thrown \/ height.thrown
             THEN [s1 EXCEPT !.thrown = TRUE]
             ELSE set_value(s1, "graphics", "resolution", option)
        ELSE [s1 EXCEPT !.thrown = TRUE]

fullscreen_on_click(st, option) ==
    set_value(queue_sound(st, UI_CLICK), "graphics", "fullscreen", option)

wireframe_on_click(st, option) ==
    set_value(queue_sound(st, UI_CLICK), "graphics", "wireframe", option)

fov_on_confirm(st, option) == set_value(st, "graphics", "field_of_view", option)

max_fps_on_confirm(st, option) == set_value(st, "graphics", "max_fps", option)

show_fps_on_click(st, option) == set_value(st, "graphics", "show_fps", option)

show_pos_on_click(st, option) == set_value(st, "graphics", "show_pos", option)

(***************************************************************************)
(* Elements of a UI.  An element is known by the callback it was added     *)
(* with; every clickable textbox and dropdown was added with on_hover,     *)
(* every dropdown with dropdown_on_hover for its options.                  *)
(***************************************************************************)
Element(kind, label, cb, key_str, contents, options, option_cb, idx) ==
    [kind |-> kind, label |-> label, cb |-> cb, key_str |-> key_str,
     contents |-> contents, options |-> options, option_cb |-> option_cb,
     dropdown_option_idx |-> idx]

add_textbox(label) == Element("textbox", label, "", "", <<>>, <<>>, "", 0)

add_colored_rectangle(label) ==
    Element("colored_rectangle", label, "", "", <<>>, <<>>, "", 0)

add_clickable_textbox(on_click, label) ==
    Element("clickable_textbox", label, on_click, "", <<>>, <<>>, "", 0)

\* label: the caption of the textbox added next to the box
add_input_box(on_confirm_cb, key_str, contents, label) ==
    Element("input_box", label, on_confirm_cb, key_str, contents, <<>>, "", 0)

add_dropdown(on_click, dropdown_option_idx, options, dropdown_on_click, label) ==
    Element("dropdown", label, on_click, "", <<>>, options, dropdown_on_click,
            dropdown_option_idx)

create_main_menu_ui ==
    << add_textbox("Welcome to the program."),
       add_clickable_textbox("on_program_start", "RESUME"),
       add_clickable_textbox("main_menu_on_click_settings", "SETTINGS"),
       add_clickable_textbox("on_click_about", "ABOUT"),
       add_clickable_textbox("on_game_quit", "QUIT") >>

create_about_ui ==
    << add_textbox("this program was created with the toolbox engine"),
       add_clickable_textbox("about_on_back_clicked", "back to main menu") >>

create_settings_menu_ui ==
    << add_clickable_textbox("player_on_click", "player"),
       add_clickable_textbox("input_on_click", "input"),
       add_clickable_textbox("sound_on_click", "sound"),
       add_clickable_textbox("graphics_on_click", "graphics"),
       add_clickable_textbox("network_on_click", "network"),
       add_colored_rectangle("main_settings_rect"),
       add_clickable_textbox("on_back_clicked", "BACK"),
       add_clickable_textbox("on_apply_clicked", "APPLY"),
       add_clickable_textbox("on_save_clicked", "SAVE") >>

create_player_settings_ui ==
    << add_textbox("username"),
       add_input_box("on_confirm", "",
                     <<"u", "s", "e", "r", "n", "a", "m", "e">>, "username"),
       add_textbox("crosshair") >>

create_input_settings_ui(config) ==
    << add_textbox("mouse sensitivity"),
       add_input_box("sens_on_click", "", <<"1">>, "mouse sensitivity"),
       add_textbox("fire"),
       add_input_box("on_confirm", "", <<"l", "m", "b">>, "fire"),
       add_textbox("jump"),
       add_input_box("on_confirm", "", <<"s", "p", "a", "c", "e">>, "jump"),
       add_textbox("move forward"),
       add_input_box("create_key_on_confirm_function", "forward",
                     value_or(get_value(config, "input", "forward"), W),
                     "move forward"),
       add_textbox("move backward"),
       add_input_box("create_key_on_confirm_function", "back", <<"s">>,
                     "move backward"),
       add_textbox("move left"),
       add_input_box("create_key_on_confirm_function", "left", <<"a">>, "move left"),
       add_textbox("move right"),
       add_input_box("create_key_on_confirm_function", "right", <<"d">>, "move right"),
       add_textbox("move up"),
       add_input_box("create_key_on_confirm_function", "left", <<" ">>, "move up"),
       add_textbox("move down"),
       add_input_box("create_key_on_confirm_function", "down",
                     <<"l", "e", "f", "t", "_", "s", "h", "i", "f", "t">>, "move down"),
       add_textbox("slow move"),
       add_input_box("create_key_on_confirm_function", "slow_move",
                     <<"l", "e", "f", "t", "_", "c", "o", "n", "t", "r", "o", "l">>,
                     "slow move"),
       add_textbox("fast move"),
       add_input_box("create_key_on_confirm_function", "fast_move",
                     <<"t", "a", "b">>, "fast move") >>

create_sound_settings_ui == << add_textbox("volume") >>

\* int get_index_or_default(value, vec): 0-based
get_index_or_default(value, vec) ==
    IF \E i \in 1..Len(vec) : vec[i] = value
    THEN (CHOOSE i \in 1..Len(vec) :
              vec[i] = value /\ \A j \in 1..(i - 1) : vec[j] # value) - 1
    ELSE 0

\* the input box's text when graphics/field_of_view is not configured
FovPlaceholder ==
    <<"d", "e", "g", "r", "e", "e", "s", " ", "(", "3", "0", "-", "1", "6", "0",
      " ", "l", "i", "m", "i", "t", ")">>

create_graphics_settings_ui(config, available) ==
    LET resolutions == IF available = <<>> THEN <<R1920x1080>> ELSE available
        on_off_options == <<ON, OFF>>
        options == resolutions
        resolution_idx ==
            get_index_or_default(
                value_or(get_value(config, "graphics", "resolution"), R1280x720),
                options)
        fullscreen_idx ==
            get_index_or_default(
                value_or(get_value(config, "graphics", "fullscreen"), OFF),
                on_off_options)
        wireframe_idx ==
            get_index_or_default(
                value_or(get_value(config, "graphics", "wireframe"), OFF),
                on_off_options)
    IN  << add_textbox("resolution"),
           add_dropdown("graphics_on_click_settings", resolution_idx, options,
                        "resolution_dropdown_on_click", "resolution"),
           add_textbox("fullscreen"),
           add_dropdown("graphics_on_click_settings", fullscreen_idx, on_off_options,
                        "fullscreen_on_click", "fullscreen"),
           add_textbox("wireframe"),
           add_dropdown("graphics_on_click_settings", wireframe_idx, on_off_options,
                        "wireframe_on_click", "wireframe"),
           add_textbox("field of view"),
           add_input_box("fov_on_confirm", "",
                         value_or(get_value(config, "graphics", "field_of_view"),
                                  FovPlaceholder),
                         "field of view"),
           add_textbox("max fps"),
           add_input_box("max_fps_on_confirm", "",
                         value_or(get_value(config, "graphics", "max_fps"),
                                  <<"1", "2", "0">>),
                         "max fps"),
           add_textbox("show fps"),
           \* dropdown_option_idx still holds the wireframe dropdown's index
           add_dropdown("graphics_on_click_settings", wireframe_idx, on_off_options,
                        "show_fps_on_click", "show fps"),
           add_textbox("show pos"),
           add_dropdown("graphics_on_click_settings", wireframe_idx, on_off_options,
                        "show_pos_on_click", "show pos") >>

create_advanced_settings_ui ==
    << add_textbox("display tick time expendature"),
       add_textbox("display current ping"),
       add_textbox("display movement dial") >>

\* the member initialisers of the constructor
ConstructUIs(config, available) ==
    [main_menu_ui |-> create_main_menu_ui,
     about_ui |-> create_about_ui,
     settings_menu_ui |-> create_settings_menu_ui,
     player_settings_ui |-> create_player_settings_ui,
     input_settings_ui |-> create_input_settings_ui(config),
     sound_settings_ui |-> create_sound_settings_ui,
     graphics_settings_ui |-> create_graphics_settings_ui(config, available),
     advanced_settings_ui |-> create_advanced_settings_ui]

(***************************************************************************)
(* The render suite's entry point process_and_queue_render_ui, by its      *)
(* contract at the call in process_and_queue_render_menu.                  *)
(*                                                                         *)
(* A frame's input: for each screen with an element under the corrected    *)
(* pointer position, that element and the option of it the pointer is on   *)
(* (mouse_over[ui] = <<index, k>>, k > 0 for the k-th option of an open    *)
(* dropdown), whether the pointer has just moved there (hover), the edge   *)
(* triggered booleans left_click and enter, the focused input box and its  *)
(* typed contents.  The rectangles the builders lay out for screens that   *)
(* are processed together do not overlap: the sub-settings panels lie in   *)
(* settings_menu.at(1), the buttons of the settings menu in                *)
(* settings_menu.at(0) and in the corner rectangles.                       *)
(***************************************************************************)
NoElement == <<"", 0>>

\* the pointer is over no element of any screen
Nowhere == [ui_name \in {} |-> <<0, 0>>]

\* the pointer is over option k of element i of the screen ui_name only
Over(ui_name, i, k) == [u \in {ui_name} |-> <<i, k>>]

fire(st, cb, label, arg) ==
    [st EXCEPT !.fired = Append(@, [cb |-> cb, label |-> label, arg |-> arg])]

\* a std::function<void()> stored in an element
invoke_on_click(el, st) ==
    LET s == fire(st, el.cb, el.label, <<>>)
    IN  CASE el.cb = "on_program_start" -> on_program_start(s)
          [] el.cb = "main_menu_on_click_settings" -> main_menu_on_click_settings(s)
          [] el.cb = "on_click_about" -> on_click_about(s)
          [] el.cb = "on_game_quit" -> on_game_quit(s)
          [] el.cb = "about_on_back_clicked" -> about_on_back_clicked(s)
          [] el.cb = "on_back_clicked" -> on_back_clicked(s)
          [] el.cb = "on_apply_clicked" -> on_apply_clicked(s)
          [] el.cb = "on_save_clicked" -> on_save_clicked(s)
          [] el.cb = "player_on_click" -> player_on_click(s)
          [] el.cb = "input_on_click" -> input_on_click(s)
          [] el.cb = "sound_on_click" -> sound_on_click(s)
          [] el.cb = "graphics_on_click" -> graphics_on_click(s)
          [] el.cb = "network_on_click" -> network_on_click(s)
          [] el.cb = "graphics_on_click_settings" -> graphics_on_click_settings(s)

\* a std::function<void(std::string)> stored in an input box
invoke_on_confirm(el, st, contents) ==
    LET s == fire(st, el.cb, el.label, contents)
    IN  CASE el.cb = "on_confirm" -> on_confirm(s, contents)
          [] el.cb = "sens_on_click" -> sens_on_click(s, contents)
          [] el.cb = "create_key_on_confirm_function" ->
                 create_key_on_confirm_function(el.key_str, s, contents)
          [] el.cb = "fov_on_confirm" -> fov_on_confirm(s, contents)
          [] el.cb = "max_fps_on_confirm" -> max_fps_on_confirm(s, contents)

\* a std::function<void(std::string)> stored in a dropdown for its options
invoke_dropdown_on_click(el, st, option) ==
    LET s == fire(st, el.option_cb, el.label, option)
    IN  CASE el.option_cb = "resolution_dropdown_on_click" ->
                 resolution_dropdown_on_click(s, option)
          [] el.option_cb = "fullscreen_on_click" -> fullscreen_on_click(s, option)
          [] el.option_cb = "wireframe_on_click" -> wireframe_on_click(s, option)
          [] el.option_cb = "show_fps_on_click" -> show_fps_on_click(s, option)
          [] el.option_cb = "show_pos_on_click" -> show_pos_on_click(s, option)

process_and_queue_render_ui(in, ui_name, ui, st) ==
    LET hit == ui_name \in DOMAIN in.mouse_over
        el == ui[in.mouse_over[ui_name][1]]
        interactive == hit /\ el.kind \in {"clickable_textbox", "dropdown"}
        on_option == in.mouse_over[ui_name][2] > 0
        option == el.options[in.mouse_over[ui_name][2]]
        s1 == IF interactive /\ in.hover
              THEN IF on_option
                   THEN dropdown_on_hover(
                            fire(st, "dropdown_on_hover", el.label, option), option)
                   ELSE on_hover(fire(st, "on_hover", el.label, <<>>))
              ELSE st
        s2 == IF interactive /\ in.left_click
              THEN IF on_option
                   THEN invoke_dropdown_on_click(el, s1, option)
                   ELSE invoke_on_click(el, s1)
              ELSE s1
    IN  IF ~s2.thrown /\ in.enter /\ in.focused[1] = ui_name
        THEN invoke_on_confirm(ui[in.focused[2]], s2, in.contents)
        ELSE s2

(***************************************************************************)
(* The pointer transform.  The floating point values are kept as exact     *)
(* fractions in lowest terms with a positive denominator; the rounding of  *)
(* float is not modelled.                                                  *)
(***************************************************************************)
RECURSIVE gcd(_, _)
gcd(a, b) == IF b = 0 THEN a ELSE gcd(b, a % b)

abs(n) == IF n < 0 THEN 0 - n ELSE n

\* n / d for d # 0
Rational(n, d) ==
    LET g == gcd(abs(n), abs(d))
    IN  IF d < 0
        THEN [num |-> (0 - n) \div g, den |-> (0 - d) \div g]
        ELSE [num |-> n \div g, den |-> d \div g]

RatMul(a, b) == Rational(a.num * b.num, a.den * b.den)

RatSub(a, b) == Rational(a.num * b.den - b.num * a.den, a.den * b.den)

\* get_ndc_mouse_pos keeping the direction of the screen's y axis
get_ndc_mouse_pos_no_flip(window_size, xpos, ypos) ==
    LET width == window_size[1]
        height == window_size[2]
    IN  << RatSub(Rational(2 * xpos, width), Rational(1, 1)),
           RatSub(Rational(2 * ypos, height), Rational(1, 1)) >>

\* window_size: the width and height glfwGetWindowSize answers
get_ndc_mouse_pos(window_size, xpos, ypos) ==
    LET width == window_size[1]
        height == window_size[2]
    IN  << RatSub(Rational(2 * xpos, width), Rational(1, 1)),
           RatSub(Rational(1, 1), Rational(2 * ypos, height)) >>

aspect_corrected_ndc_mouse_pos(ndc_mouse_pos, x_scale) ==
    << RatMul(ndc_mouse_pos[1], x_scale), ndc_mouse_pos[2] >>

\* Spec and SpecMalformedOption do not follow the pointer's coordinates: the
\* frame's input says which element the pointer is over
Untracked == [tracked |-> FALSE]

NoPosition == <<>>

\* the first two statements of process_and_queue_render_menu
corrected_pointer(p) ==
    IF p.tracked
    THEN aspect_corrected_ndc_mouse_pos(
             get_ndc_mouse_pos(<<p.width, p.height>>, p.mouse_position_x,
                               p.mouse_position_y),
             Rational(p.width_px, p.height_px))
    ELSE NoPosition

(***************************************************************************)
(* void process_and_queue_render_menu(window, input_state, ui_render_suite)*)
(* from the declaration of uis_to_render on                                *)
(***************************************************************************)
\* uis_to_render with the dependencies pushed before curr_state
uis_to_render_dependencies_first(state) == get_ui_dependencies(state) \o <<state>>

uis_to_render(state) == <<state>> \o get_ui_dependencies(state)

RECURSIVE render_loop(_, _, _, _, _)
render_loop(to_render, i, in, the_uis, st) ==
    IF i > Len(to_render) \/ st.thrown
    THEN st
    ELSE LET ui_state == to_render[i]
         IN  IF ui_state \in DOMAIN game_state_to_ui
             THEN render_loop(to_render, i + 1, in, the_uis,
                      process_and_queue_render_ui(
                          in, game_state_to_ui[ui_state],
                          the_uis[game_state_to_ui[ui_state]],
                          [st EXCEPT !.processed = Append(@, ui_state)]))
             ELSE render_loop(to_render, i + 1, in, the_uis, st)

\* process_and_queue_render_menu falling back to the main menu after a frame
\* in which the pointer is over no element
process_and_queue_render_menu_idle_reset(st, in, the_uis) ==
    LET done == render_loop(uis_to_render(st.curr_state), 1, in, the_uis, st)
    IN  IF DOMAIN in.mouse_over = {} /\ ~in.enter
        THEN [done EXCEPT !.curr_state = MAIN_MENU]
        ELSE done

\* process_and_queue_render_menu starting over with the render set of the new
\* state as soon as the first screen has changed curr_state
process_and_queue_render_menu_following(st, in, the_uis) ==
    LET first == render_loop(<<st.curr_state>>, 1, in, the_uis, st)
    IN  IF first.curr_state # st.curr_state
        THEN render_loop(uis_to_render(first.curr_state), 1, in, the_uis, first)
        ELSE render_loop(uis_to_render(st.curr_state), 2, in, the_uis, first)

process_and_queue_render_menu(st, in, the_uis) ==
    render_loop(uis_to_render(st.curr_state), 1, in, the_uis, st)

(***************************************************************************)
(* The state machine                                                       *)
(***************************************************************************)
\* the controller's state at the start of a frame, the frame's logs empty
FrameStart(e, s, w) ==
    [enabled |-> e, curr_state |-> s, window_should_close |-> w, thrown |-> FALSE,
     processed |-> <<>>, fired |-> <<>>, sounds |-> <<>>, set_values |-> <<>>,
     calls |-> <<>>]

Range(seq) == {seq[i] : i \in 1..Len(seq)}

\* the UI members the frame's render set selects
RenderedUIs(state) ==
    {game_state_to_ui[s] : s \in Range(uis_to_render(state)) \cap DOMAIN game_state_to_ui}

Interactive(ui) ==
    {i \in 1..Len(ui) : ui[i].kind \in {"clickable_textbox", "dropdown"}}

InputBoxes(ui) == {i \in 1..Len(ui) : ui[i].kind = "input_box"}

\* the clickable elements of the screen ui_name and their options, as
\* <<ui_name, index, option>>
Targets(ui_name, the_uis) ==
    UNION {{<<ui_name, i, k>> : k \in 0..Len(the_uis[ui_name][i].options)} :
              i \in Interactive(the_uis[ui_name])}

\* A tick of the mouse: the pointer is over no clickable element or over one,
\* has or has not just moved there, and the primary button was or was not
\* just pressed.
MouseInputs(state, the_uis) ==
    {[mouse_over |-> Nowhere, hover |-> FALSE, left_click |-> c,
      enter |-> FALSE, focused |-> NoElement, contents |-> <<>>] : c \in BOOLEAN}
    \cup
    UNION {{[mouse_over |-> Over(t[1], t[2], t[3]), hover |-> h, left_click |-> c,
             enter |-> FALSE, focused |-> NoElement, contents |-> <<>>] :
               t \in Targets(u, the_uis), h \in BOOLEAN, c \in BOOLEAN} :
           u \in RenderedUIs(state)}

\* A tick of the keyboard: enter was just pressed, with no input box focused
\* or with one focused that holds the typed contents.
KeyboardInputs(state, the_uis) ==
    {[mouse_over |-> Nowhere, hover |-> FALSE, left_click |-> FALSE,
      enter |-> TRUE, focused |-> NoElement, contents |-> <<>>]}
    \cup
    UNION {UNION {{[mouse_over |-> Nowhere, hover |-> FALSE,
                    left_click |-> FALSE, enter |-> TRUE, focused |-> <<u, i>>,
                    contents |-> x] : x \in InputTexts} :
                  i \in InputBoxes(the_uis[u])} :
           u \in RenderedUIs(state)}

\* the inputs explored: the edges of one device per tick
FrameInputs(state, the_uis) ==
    MouseInputs(state, the_uis) \cup KeyboardInputs(state, the_uis)

\* the state after the constructor has run over one of the configurations
\* and one of the answers of get_available_resolutions
Constructed(configurations, resolutions, pointers) ==
    /\ enabled = TRUE
    /\ curr_state = MAIN_MENU
    /\ window_should_close = FALSE
    /\ \E config \in configurations, available \in resolutions :
           uis = ConstructUIs(config, available)
    /\ thrown = FALSE
    /\ pointer \in pointers
    /\ acnmp = NoPosition
    /\ processed = <<>>
    /\ fired = <<>>
    /\ sounds = <<>>
    /\ set_values = <<>>
    /\ calls = <<"register_config_handler", "register_config_handler",
                 "register_config_handler", "apply_config_logic", "logger.info">>

Init == Constructed(InitialConfigurations, AvailableResolutions, {Untracked})

\* one call of process_and_queue_render_menu with the input in
Frame(in) ==
    /\ ~thrown
    /\ \E st \in {process_and_queue_render_menu(
                     FrameStart(enabled, curr_state, window_should_close), in, uis)} :
           /\ enabled' = st.enabled
           /\ curr_state' = st.curr_state
           /\ window_should_close' = st.window_should_close
           /\ thrown' = st.thrown
           /\ processed' = st.processed
           /\ fired' = st.fired
           /\ sounds' = st.sounds
           /\ set_values' = st.set_values
           /\ calls' = st.calls
    /\ acnmp' = corrected_pointer(pointer)
    /\ UNCHANGED <<uis, pointer>>

Next == \E in \in FrameInputs(curr_state, uis) : Frame(in)

Spec == Init /\ [][Next]_vars

\* a controller constructed while the resolution service offers a malformed
\* option
InitMalformedOption ==
    Constructed(InitialConfigurations, MalformedResolutions, {Untracked})

SpecMalformedOption == InitMalformedOption /\ [][Next]_vars

\* A tick of the mouse with the render suite's hit test left open: the
\* pointer is over a clickable element of each of the two screens of the
\* frame, as where an open dropdown's list lies over a button.
OverlapInputs(state, the_uis) ==
    IF Len(uis_to_render(state)) = 2
    THEN {[mouse_over |->
               [u \in {a[1], b[1]} |->
                   IF u = a[1] THEN <<a[2], a[3]>> ELSE <<b[2], b[3]>>],
           hover |-> h, left_click |-> c, enter |-> FALSE, focused |-> NoElement,
           contents |-> <<>>] :
             a \in Targets(game_state_to_ui[uis_to_render(state)[1]], the_uis),
             b \in Targets(game_state_to_ui[uis_to_render(state)[2]], the_uis),
             h \in BOOLEAN, c \in BOOLEAN}
    ELSE {}

InitOverlap ==
    Constructed({EmptyConfiguration}, {<<R1280x720, R1920x1080>>}, {Untracked})

NextOverlap ==
    \E in \in FrameInputs(curr_state, uis) \cup OverlapInputs(curr_state, uis) :
        Frame(in)

SpecOverlap == InitOverlap /\ [][NextOverlap]_vars

\* raw pointer positions, in and around the windows below
PointerPositions == {<<x, y>> : x \in {0, 480, 960, 1920}, y \in {0, 540, 1080}}

\* what glfwGetWindowSize answers (width, height) beside the fields
\* window.width_px and window.height_px: in agreement, in the same ratio, and
\* in disagreement
WindowSizes ==
    {[width |-> 1920, height |-> 1080, width_px |-> 1920, height_px |-> 1080],
     [width |-> 1280, height |-> 720, width_px |-> 1280, height_px |-> 720],
     [width |-> 960, height |-> 540, width_px |-> 1920, height_px |-> 1080],
     [width |-> 1920, height |-> 1080, width_px |-> 1280, height_px |-> 960]}

Pointers ==
    {[tracked |-> TRUE, mouse_position_x |-> p[1], mouse_position_y |-> p[2],
      width |-> w.width, height |-> w.height, width_px |-> w.width_px,
      height_px |-> w.height_px] : p \in PointerPositions, w \in WindowSizes}

\* frames at the main menu with the pointer resting or moving, its coordinates
\* followed
InitPointer == Constructed({EmptyConfiguration}, {<<>>}, Pointers)

NextPointer ==
    \E in \in {i \in MouseInputs(curr_state, uis) : ~i.left_click} : Frame(in)

SpecPointer == InitPointer /\ [][NextPointer]_vars

(***************************************************************************)
(* Properties                                                              *)
(***************************************************************************)
\* the callbacks named cb among the log f of a frame
Fired(f, cb) == \E i \in 1..Len(f) : f[i].cb = cb

NoDuplicates(seq) == \A i, j \in 1..Len(seq) : seq[i] = seq[j] => i = j

\* C1: get_ui_dependencies returns the empty sequence for MAIN_MENU,
\* SETTINGS_MENU and ABOUT and exactly <<SETTINGS_MENU>> for each of the five
\* sub-settings states, and a frame processes after the screen of the state it
\* started in exactly those dependencies.
C1_Dependencies ==
    /\ \A s \in UIState :
           get_ui_dependencies(s) =
               IF s \in {PROGRAM_SETTINGS, INPUT_SETTINGS, SOUND_SETTINGS,
                         GRAPHICS_SETTINGS, ADVANCED_SETTINGS}
               THEN <<SETTINGS_MENU>>
               ELSE <<>>
    /\ processed # <<>> =>
           Tail(processed) =
               IF processed[1] \in {MAIN_MENU, SETTINGS_MENU, ABOUT}
               THEN <<>>
               ELSE <<SETTINGS_MENU>>

\* a frame started in SOUND_SETTINGS has processed its dependency
C1_Witness == processed = <<SOUND_SETTINGS, SETTINGS_MENU>>

\* C2 as stated: in every frame the screens of the dependencies of curr_state
\* are processed before the screen of curr_state, which is processed last.
C2_ActiveScreenLast ==
    [][/\ processed'[Len(processed')] = curr_state
       /\ \A i \in 1..Len(processed') :
              processed'[i] \in Range(get_ui_dependencies(curr_state)) =>
                  i < Len(processed')]_vars

\* C2 amended: in every frame the screen of curr_state is processed first and
\* the screens of its dependencies after it, in the order get_ui_dependencies
\* gives them.
C2_ActiveScreenFirst ==
    [][processed' = <<curr_state>> \o get_ui_dependencies(curr_state)]_vars

\* a frame started in INPUT_SETTINGS processed the settings menu second
C2_Witness == processed = <<INPUT_SETTINGS, SETTINGS_MENU>> /\ fired = <<>>

\* C3 as stated: clicking BACK while curr_state is a sub-settings state sets
\* curr_state to SETTINGS_MENU.
C3_BackToSettingsMenu ==
    [][(curr_state \in SubSettingsStates /\ Fired(fired', "on_back_clicked")) =>
           curr_state' = SETTINGS_MENU]_vars

\* C3 amended: clicking BACK while curr_state is a sub-settings state sets
\* curr_state to MAIN_MENU.
C3_BackToMainMenu ==
    [][(curr_state \in SubSettingsStates /\ Fired(fired', "on_back_clicked")) =>
           curr_state' = MAIN_MENU]_vars

\* BACK was clicked in a frame started in GRAPHICS_SETTINGS
C3_Witness ==
    /\ processed = <<GRAPHICS_SETTINGS, SETTINGS_MENU>>
    /\ Fired(fired, "on_back_clicked")
    /\ curr_state = MAIN_MENU

\* a click on the clickable textbox of ui_name labelled label
ClickOn(ui_name, label, the_uis) ==
    [mouse_over |->
         Over(ui_name,
              CHOOSE i \in 1..Len(the_uis[ui_name]) :
                  /\ the_uis[ui_name][i].label = label
                  /\ the_uis[ui_name][i].kind = "clickable_textbox",
              0),
     hover |-> FALSE, left_click |-> TRUE, enter |-> FALSE,
     focused |-> NoElement, contents |-> <<>>]

\* C4: the BACK action of the settings menu screen sets curr_state to
\* MAIN_MENU and leaves enabled unchanged: in every frame in which it fires,
\* and for a frame started with curr_state = SETTINGS_MENU as well, a state
\* the callbacks never assign.
C4_SettingsBack ==
    /\ [](\A e \in BOOLEAN :
              \E st \in {process_and_queue_render_menu(
                             FrameStart(e, SETTINGS_MENU, window_should_close),
                             ClickOn("settings_menu_ui", "BACK", uis), uis)} :
                  /\ Fired(st.fired, "on_back_clicked")
                  /\ st.curr_state = MAIN_MENU
                  /\ st.enabled = e)
    /\ [][Fired(fired', "on_back_clicked") =>
              curr_state' = MAIN_MENU /\ enabled' = enabled]_vars

\* BACK was clicked in a frame started in PROGRAM_SETTINGS
C4_Witness ==
    /\ processed = <<PROGRAM_SETTINGS, SETTINGS_MENU>>
    /\ Fired(fired, "on_back_clicked")
    /\ curr_state = MAIN_MENU
    /\ enabled

\* C5: a newly constructed controller has curr_state = MAIN_MENU, and the
\* SETTINGS action fired from MAIN_MENU sets curr_state to PROGRAM_SETTINGS
\* and leaves enabled unchanged.
C5_SettingsOpensProgramSettings ==
    /\ curr_state = MAIN_MENU
    /\ [][(curr_state = MAIN_MENU /\ Fired(fired', "main_menu_on_click_settings")) =>
              curr_state' = PROGRAM_SETTINGS /\ enabled' = enabled]_vars

\* SETTINGS was clicked in a frame started in MAIN_MENU
C5_Witness ==
    /\ processed = <<MAIN_MENU>>
    /\ Fired(fired, "main_menu_on_click_settings")
    /\ curr_state = PROGRAM_SETTINGS

\* C6: QUIT fired from MAIN_MENU signals window-close and changes neither
\* curr_state nor enabled.
C6_QuitKeepsState ==
    [][(curr_state = MAIN_MENU /\ Fired(fired', "on_game_quit")) =>
           /\ window_should_close'
           /\ curr_state' = curr_state
           /\ enabled' = enabled]_vars

\* QUIT was clicked in a frame started in MAIN_MENU with the menu enabled
C6_Witness ==
    /\ processed = <<MAIN_MENU>>
    /\ Fired(fired, "on_game_quit")
    /\ window_should_close
    /\ enabled

\* C7: RESUME fired from MAIN_MENU sets enabled to false and leaves
\* curr_state at MAIN_MENU.
C7_ResumeDisables ==
    [][(curr_state = MAIN_MENU /\ Fired(fired', "on_program_start")) =>
           ~enabled' /\ curr_state' = MAIN_MENU]_vars

\* RESUME was clicked in a frame started in MAIN_MENU
C7_Witness ==
    /\ processed = <<MAIN_MENU>>
    /\ Fired(fired, "on_program_start")
    /\ ~enabled
    /\ curr_state = MAIN_MENU

(***************************************************************************)
(* What sequences of frames can reach, on <<curr_state, enabled>>          *)
(***************************************************************************)
ControlStates == UIState \X BOOLEAN

ConstructedUIs ==
    {ConstructUIs(config, available) :
        config \in InitialConfigurations, available \in AvailableResolutions}

\* <<curr_state, enabled>> after one frame started in c, for every input
ControlSuccessors ==
    [u \in ConstructedUIs |->
        [c \in ControlStates |->
            {<<st.curr_state, st.enabled>> :
                st \in {process_and_queue_render_menu(FrameStart(c[2], c[1], FALSE), in, u) :
                           in \in FrameInputs(c[1], u)}}]]

\* the control states from which some sequence of frames leads into target
RECURSIVE CanReach(_, _)
CanReach(target, u) ==
    IF \A c \in ControlStates : ControlSuccessors[u][c] \cap target # {} => c \in target
    THEN target
    ELSE CanReach(
             target \cup {c \in ControlStates : ControlSuccessors[u][c] \cap target # {}},
             u)

\* the control states from which an enabled menu at MAIN_MENU can be reached
CanReenter == [u \in ConstructedUIs |-> CanReach({<<MAIN_MENU, TRUE>>}, u)]

\* C8 as stated: from every reachable state, enabled or not, some sequence of
\* frames leads back to an enabled menu at MAIN_MENU.
C8_AlwaysReenterable == <<curr_state, enabled>> \in CanReenter[uis]

\* C8 amended: from every reachable state in which enabled is true some
\* sequence of frames leads back to an enabled menu at MAIN_MENU; once enabled
\* is false no frame sets it to true again.
C8_ReenterableWhileEnabled ==
    /\ [](enabled => <<curr_state, enabled>> \in CanReenter[uis])
    /\ [][~enabled => ~enabled']_vars

\* deep in the settings with the menu enabled, and the way back exists
C8_Witness ==
    /\ enabled
    /\ curr_state = ADVANCED_SETTINGS
    /\ Fired(fired, "network_on_click")
    /\ <<curr_state, enabled>> \in CanReenter[uis]

\* C9: a frame in which no element callback fires leaves curr_state and
\* enabled unchanged, whatever the pointer position and the pressed keys.
C9_NoCallbackNoChange ==
    [][fired' = <<>> => curr_state' = curr_state /\ enabled' = enabled]_vars

\* a frame of a sub-settings state in which nothing fired
C9_Witness ==
    /\ processed = <<GRAPHICS_SETTINGS, SETTINGS_MENU>>
    /\ fired = <<>>
    /\ curr_state = GRAPHICS_SETTINGS

\* C10: for every state the render set has no duplicates and every member has
\* an entry in game_state_to_ui, and a frame processes every screen of its
\* render set exactly once, skipping none.
C10_RenderSet ==
    [][/\ \A s \in UIState :
              /\ NoDuplicates(uis_to_render(s))
              /\ Range(uis_to_render(s)) \subseteq DOMAIN game_state_to_ui
       /\ Len(processed') = Len(uis_to_render(curr_state))
       /\ \A s \in Range(uis_to_render(curr_state)) :
              Cardinality({i \in 1..Len(processed') : processed'[i] = s}) = 1]_vars

\* a frame with a callback on each of the two screens of its render set
C10_Witness ==
    /\ processed = <<ADVANCED_SETTINGS, SETTINGS_MENU>>
    /\ Fired(fired, "on_apply_clicked")

\* the input box of the Input screen whose caption is label
KeyBox(label, the_uis) ==
    CHOOSE e \in Range(the_uis.input_settings_ui) :
        e.kind = "input_box" /\ e.label = label

IsWidthXHeight(option) ==
    \E x \in 2..(Len(option) - 1) :
        /\ option[x] = "x"
        /\ \A i \in (1..Len(option)) \ {x} : isdigit(option[i])

\* C12: when the option callback of the resolution dropdown fires, an option
\* of the form "<width>x<height>" is written verbatim under
\* ("graphics", "resolution") and nothing is thrown; an option without an x
\* raises the exception and nothing is written.
C12_ResolutionConfirm ==
    [][\A i \in 1..Len(fired') :
           fired'[i].cb = "resolution_dropdown_on_click" =>
               /\ IsWidthXHeight(fired'[i].arg) =>
                      /\ set_values' =
                             <<[section |-> "graphics", key |-> "resolution",
                                value |-> fired'[i].arg]>>
                      /\ ~thrown'
               /\ (\A k \in 1..Len(fired'[i].arg) : fired'[i].arg[k] # "x") =>
                      /\ thrown'
                      /\ set_values' = <<>>]_vars

\* the option "1280960" was chosen: the exception left the frame, nothing
\* was written
C12_Witness ==
    /\ thrown
    /\ \E i \in 1..Len(fired) :
           fired[i].cb = "resolution_dropdown_on_click" /\ fired[i].arg = R1280960
    /\ set_values = <<>>

\* the configuration key behind the dropdown of the Graphics screen captioned
\* label, and the default of the place that reads it (none where no place
\* reads it)
BackingKey(label) ==
    CASE label = "resolution" -> "resolution"
      [] label = "fullscreen" -> "fullscreen"
      [] label = "wireframe" -> "wireframe"
      [] label = "show fps" -> "show_fps"
      [] label = "show pos" -> "show_pos"

ReadSiteDefault(label) ==
    CASE label = "resolution" -> <<R1280x720>>
      [] label = "fullscreen" -> <<OFF>>
      [] label = "wireframe" -> <<OFF>>
      [] OTHER -> <<>>

\* the 0-based position of the first option equal to value, 0 when none is
FirstMatchOrZero(value, options) ==
    IF \E i \in 1..Len(options) : options[i] = value
    THEN CHOOSE k \in 0..(Len(options) - 1) :
             options[k + 1] = value /\ \A j \in 1..k : options[j] # value
    ELSE 0

\* the dropdowns captioned by one of labels start at the index of their own
\* backing value, or of their read-site default when the value is absent,
\* whatever configuration the screens were constructed over
OwnValueIndex(labels) ==
    \A config \in InitialConfigurations, available \in AvailableResolutions :
        uis = ConstructUIs(config, available) =>
            \A i \in 1..Len(uis.graphics_settings_ui) :
                LET e == uis.graphics_settings_ui[i]
                    own == get_value(config, "graphics", BackingKey(e.label))
                    value == IF own # <<>> THEN own ELSE ReadSiteDefault(e.label)
                IN  (e.kind = "dropdown" /\ e.label \in labels /\ value # <<>>) =>
                        e.dropdown_option_idx = FirstMatchOrZero(value[1], e.options)

\* C13 as stated: every dropdown of the Graphics screen starts at the index
\* of its own backing configuration value in its option list (of the read-site
\* default when the value is absent), 0 when the value matches no option.
C13_OwnValueIndex ==
    OwnValueIndex({"resolution", "fullscreen", "wireframe", "show fps", "show pos"})

\* what holds of the code: the resolution, fullscreen and wireframe dropdowns
\* start at the index of their own value; show fps and show pos start at the
\* index computed for wireframe
C13_WireframeIndexReused ==
    /\ OwnValueIndex({"resolution", "fullscreen", "wireframe"})
    /\ \A i, j \in 1..Len(uis.graphics_settings_ui) :
           (/\ uis.graphics_settings_ui[i].label = "wireframe"
            /\ uis.graphics_settings_ui[j].label \in {"show fps", "show pos"}
            /\ uis.graphics_settings_ui[i].kind = "dropdown"
            /\ uis.graphics_settings_ui[j].kind = "dropdown") =>
               uis.graphics_settings_ui[j].dropdown_option_idx =
                   uis.graphics_settings_ui[i].dropdown_option_idx

\* (x, y) in a viewport of width w and height h, with the aspect factor
\* aw / ah, is at position: nx * (aw / ah) = position[1] and ny = position[2]
\* for nx = 2x/w - 1 and ny = 1 - 2y/h
TransformedTo(position, x, y, w, h, aw, ah) ==
    /\ position[1].den > 0
    /\ position[2].den > 0
    /\ position[1].num * (w * ah) = ((2 * x - w) * aw) * position[1].den
    /\ position[2].num * h = (h - 2 * y) * position[2].den

\* C14 as stated: the frame's pointer position is (nx * (w/h), ny) with
\* nx = 2x/w - 1 and ny = 1 - 2y/h for one width w and height h of the
\* viewport, used for the normalisation and for the aspect factor alike.
C14_OneViewport ==
    acnmp # NoPosition =>
        \E v \in {<<pointer.width, pointer.height>>,
                   <<pointer.width_px, pointer.height_px>>} :
            TransformedTo(acnmp, pointer.mouse_position_x, pointer.mouse_position_y,
                          v[1], v[2], v[1], v[2])

\* C14 amended: the frame's pointer position is (nx * (width_px/height_px), ny)
\* with nx = 2x/w - 1 and ny = 1 - 2y/h for the width w and height h that
\* glfwGetWindowSize answers and the fields width_px, height_px of the window;
\* when all of them say 1920 by 1080, (960,540) is at (0,0), (0,0) at
\* (-16/9, 1) and (1920,1080) at (16/9, -1).
C14_PointerTransform ==
    acnmp # NoPosition =>
        /\ TransformedTo(acnmp, pointer.mouse_position_x, pointer.mouse_position_y,
                         pointer.width, pointer.height,
                         pointer.width_px, pointer.height_px)
        /\ (/\ <<pointer.width, pointer.height>> = <<1920, 1080>>
            /\ <<pointer.width_px, pointer.height_px>> = <<1920, 1080>>) =>
               LET at == <<pointer.mouse_position_x, pointer.mouse_position_y>>
               IN  /\ at = <<960, 540>> =>
                          acnmp = <<[num |-> 0, den |-> 1], [num |-> 0, den |-> 1]>>
                   /\ at = <<0, 0>> =>
                          acnmp = <<[num |-> -16, den |-> 9], [num |-> 1, den |-> 1]>>
                   /\ at = <<1920, 1080>> =>
                          acnmp = <<[num |-> 16, den |-> 9], [num |-> -1, den |-> 1]>>

\* a frame with the pointer in the top left corner of a 1920 by 1080 window
C14_Witness ==
    /\ pointer.tracked
    /\ <<pointer.mouse_position_x, pointer.mouse_position_y>> = <<0, 0>>
    /\ <<pointer.width, pointer.height, pointer.width_px, pointer.height_px>> =
           <<1920, 1080, 1920, 1080>>
    /\ processed = <<MAIN_MENU>>
    /\ acnmp = <<[num |-> -16, den |-> 9], [num |-> 1, den |-> 1]>>

\* C15: curr_state is never SETTINGS_MENU, and the screen of SETTINGS_MENU is
\* only processed second in a frame, after the screen of a sub-settings state.
C15_NeverSettingsMenu ==
    /\ curr_state # SETTINGS_MENU
    /\ \A i \in 1..Len(processed) :
           processed[i] = SETTINGS_MENU =>
               i = 2 /\ processed[1] \in SubSettingsStates

\* a button of the settings menu was clicked while its screen was processed
\* as the dependency of SOUND_SETTINGS
C15_Witness ==
    /\ processed = <<SOUND_SETTINGS, SETTINGS_MENU>>
    /\ Fired(fired, "input_on_click")
    /\ curr_state = INPUT_SETTINGS

\* callbacks that assign curr_state
AssignsState ==
    {"main_menu_on_click_settings", "on_click_about", "about_on_back_clicked",
     "on_back_clicked", "player_on_click", "input_on_click", "sound_on_click",
     "graphics_on_click", "network_on_click", "graphics_on_click_settings"}

GraphicsDropdownClick == {"graphics_on_click_settings"}

GraphicsOptionChoice ==
    {"resolution_dropdown_on_click", "fullscreen_on_click", "wireframe_on_click",
     "show_fps_on_click", "show_pos_on_click"}

GraphicsConfirm == {"fov_on_confirm", "max_fps_on_confirm"}

\* a frame started in GRAPHICS_SETTINGS in which callbacks fire, all of them
\* among callbacks, leaves curr_state and enabled as they were
GraphicsControlsKeepState(callbacks) ==
    (/\ curr_state = GRAPHICS_SETTINGS
     /\ fired' # <<>>
     /\ \A i \in 1..Len(fired') : fired'[i].cb \in callbacks) =>
        curr_state' = curr_state /\ enabled' = enabled

\* C17 as stated: while curr_state is GRAPHICS_SETTINGS no callback wired to a
\* control of the Graphics screen (dropdown click, option choice, input box
\* confirm) changes curr_state or enabled.
C17_GraphicsControlsKeepState ==
    [][GraphicsControlsKeepState(
           GraphicsDropdownClick \cup GraphicsOptionChoice \cup GraphicsConfirm)]_vars

\* what holds of the code: the choice of an option and the confirm of an input
\* box change neither; the click of any dropdown sets PROGRAM_SETTINGS
C17_DropdownClickLeaves ==
    /\ [][GraphicsControlsKeepState(GraphicsOptionChoice \cup GraphicsConfirm)]_vars
    /\ [][(curr_state = GRAPHICS_SETTINGS
            /\ Fired(fired', "graphics_on_click_settings")
            /\ Len(fired') = 1) =>
               curr_state' = PROGRAM_SETTINGS /\ enabled' = enabled]_vars

\* the captions of the key-binding input boxes of the Input screen
KeyBindings ==
    {"move forward", "move backward", "move left", "move right", "move up",
     "move down", "slow move", "fast move"}

\* C18 as stated: the key-binding input boxes write to pairwise distinct
\* configuration keys: a valid key confirmed in the box of one binding is never
\* written under the key the box of another binding writes to.
C18_DistinctKeys ==
    [][\A i \in 1..Len(fired') :
           (fired'[i].cb = "create_key_on_confirm_function"
            /\ fired'[i].label \in KeyBindings) =>
               \A k \in 1..Len(set_values'), other \in KeyBindings \ {fired'[i].label} :
                   set_values'[k].key # KeyBox(other, uis).key_str]_vars

\* what holds of the code: the boxes other than move up write to pairwise
\* distinct keys, and the move up box writes to the key of the move left box
C18_MoveUpWritesLeft ==
    /\ \A a, b \in KeyBindings \ {"move up"} :
           KeyBox(a, uis).key_str = KeyBox(b, uis).key_str => a = b
    /\ KeyBox("move up", uis).key_str = KeyBox("move left", uis).key_str
    /\ \A i \in 1..Len(fired) :
           (fired[i].cb = "create_key_on_confirm_function"
            /\ fired[i].label = "move up" /\ fired[i].arg \in ValidKeyStrings) =>
               set_values = <<[section |-> "input", key |-> "left",
                               value |-> fired[i].arg]>>

====
